---------------------------- MODULE Spec2Model ----------------------------
(***************************************************************************)
(* A model of src/weekly.rs: Entry (parse, field_append, merge, render)    *)
(* and Weekly (new, parse, render).                                        *)
(*                                                                         *)
(* Representation.                                                         *)
(*   String          a sequence of one-character strings                   *)
(*   Option<T>       a sequence of length 0 (None) or 1 (Some(x) = <<x>>)  *)
(*   Yaml            a record [tag, s, a]: tag names the yaml_rust variant,*)
(*                   s is the text of a String/Integer node, a the element *)
(*                   nodes of an Array node                                *)
(*   HashMap         a function whose DOMAIN is the set of keys            *)
(*   File            a record [data, log]: the bytes the sink holds and    *)
(*                   the write! calls made on it                           *)
(***************************************************************************)
EXTENDS Integers, Sequences, FiniteSets, TLC

VARIABLES
    entries,   \* Weekly.entries : HashMap<String, Entry>
    panicked,  \* TRUE once assert_eq! in Entry::merge has failed
    hist,      \* the arguments of the Weekly::parse calls made so far
    input,     \* the argument of the Entry::parse call under study
    parsed,    \* what that call returned, <<>> before the call
    file,      \* the File handed to the last Weekly::render call
    ret,       \* what that call returned: "none" before the first call
    visited    \* the names of the entries Entry::render was called on

vars == <<entries, panicked, hist, input, parsed, file, ret, visited>>

----------------------------------------------------------------------------
(* Bounds *)

MaxIngest == 3

MaxQuoteLen == 3

MaxAttempts == 5

MaxPartial == 1

----------------------------------------------------------------------------
(* Option and String helpers *)

None == <<>>

Some(x) == <<x>>

is_some(o) == Len(o) = 1

Min(a, b) == IF a < b THEN a ELSE b

\* String literals of the source and of the inputs
S_draft == <<"d", "r", "a", "f", "t">>

S_topic == <<"t", "o", "p", "i", "c">>

S_foo == <<"f", "o", "o">>

----------------------------------------------------------------------------
(* yaml_rust::Yaml nodes *)

BadValue == [tag |-> "BadValue", s |-> <<>>, a |-> <<>>]

YNull == [tag |-> "Null", s |-> <<>>, a |-> <<>>]

YString(str) == [tag |-> "String", s |-> str, a |-> <<>>]

YInteger(digits) == [tag |-> "Integer", s |-> digits, a |-> <<>>]

YArray(elems) == [tag |-> "Array", s |-> <<>>, a |-> elems]

\* Yaml::as_str: Some only for the String variant
as_str(y) == IF y.tag = "String" THEN Some(y.s) ELSE None

\* Yaml::as_vec: Some only for the Array variant
as_vec(y) == IF y.tag = "Array" THEN Some(y.a) ELSE None

\* A document is the hash of its six fields; a key the document lacks (and
\* every key of a document that is no hash) indexes to BadValue.
Doc(n, t, l, d, q, c) ==
    [name |-> n, type |-> t, link |-> l, description |-> d, quote |-> q, cc |-> c]

\* A fragment is given by what YamlLoader::load_from_str makes of it:
\* Err(_) or Ok(docs).
ScanError == [err |-> TRUE, docs |-> <<>>]

Loaded(docs) == [err |-> FALSE, docs |-> docs]

\* YamlLoader::load_from_str(yaml).ok()
load_from_str_ok(yaml) == IF yaml.err THEN None ELSE Some(yaml.docs)

----------------------------------------------------------------------------
(* Entry *)

RECURSIVE CollectCc(_, _)
\* the loop of Entry::parse over doc["cc"]: push the elements that are strings
CollectCc(people, cc) ==
    IF people = <<>> THEN cc
    ELSE LET person == Head(people)
         IN  CollectCc(Tail(people),
                       IF is_some(as_str(person))
                       THEN Append(cc, as_str(person)[1])
                       ELSE cc)

\* ParseKind with the arm Some(_) => None dropped: any other string is Draft
ParseKind_lenient(t) ==
    IF as_str(t) = Some(S_topic) THEN Some("Topic") ELSE Some("Draft")

\* ParseKind with the arm None => Some(Draft) turned into None => None
ParseKind_noDefault(t) ==
    LET s == as_str(t)
    IN  IF s = Some(S_draft) THEN Some("Draft")
        ELSE IF s = Some(S_topic) THEN Some("Topic")
        ELSE None

ParseKind(t) ==
    LET s == as_str(t)
    IN  IF s = Some(S_draft) THEN Some("Draft")
        ELSE IF s = Some(S_topic) THEN Some("Topic")
        ELSE IF is_some(s) THEN None
        ELSE Some("Draft")

\* ParseDoc turning down the empty name
ParseDoc_nonEmptyName(doc) ==
    LET name == as_str(doc.name)
        kind == ParseKind(doc.type)
        people == IF is_some(as_vec(doc.cc)) THEN as_vec(doc.cc)[1] ELSE <<>>
    IN  IF is_some(name) /\ name # Some(<<>>) /\ is_some(kind)
        THEN Some([name |-> name[1], kind |-> kind[1], link |-> as_str(doc.link),
                   description |-> as_str(doc.description),
                   quote |-> as_str(doc.quote), cc |-> CollectCc(people, <<>>)])
        ELSE None

ParseDoc(doc) ==
    LET name == as_str(doc.name)
        kind == ParseKind(doc.type)
        link == as_str(doc.link)
        description == as_str(doc.description)
        quote == as_str(doc.quote)
        people == IF is_some(as_vec(doc.cc)) THEN as_vec(doc.cc)[1] ELSE <<>>
        cc == CollectCc(people, <<>>)
    IN  IF is_some(name) /\ is_some(kind)
        THEN Some([name |-> name[1], kind |-> kind[1], link |-> link,
                   description |-> description, quote |-> quote, cc |-> cc])
        ELSE None

\* Entry::parse(yaml) -> Option<Entry>
Entry_parse(yaml) ==
    LET docs == load_from_str_ok(yaml)
    IN  IF ~is_some(docs) THEN None
        ELSE IF docs[1] = <<>> THEN None
        ELSE ParseDoc(Head(docs[1]))

\* field_append putting b in front of a
field_append_front(a, b) ==
    IF is_some(b)
    THEN [a |-> IF is_some(a) THEN Some(b[1] \o a[1]) ELSE Some(b[1]),
          b |-> None]
    ELSE [a |-> a, b |-> None]

\* Entry::field_append(a, b): the new values of a and of b
field_append(a, b) ==
    IF is_some(b)
    THEN [a |-> IF is_some(a) THEN Some(a[1] \o b[1]) ELSE Some(b[1]),
          b |-> None]
    ELSE [a |-> a, b |-> None]

\* Entry::merge putting other's cc in front of self's
Entry_merge_ccFront(self, other) ==
    IF self.name # other.name
    THEN [panic |-> TRUE, self |-> self]
    ELSE [panic |-> FALSE,
          self |-> [name |-> self.name,
                    kind |-> other.kind,
                    link |-> field_append(self.link, other.link).a,
                    description |->
                        field_append(self.description, other.description).a,
                    quote |-> field_append(self.quote, other.quote).a,
                    cc |-> other.cc \o self.cc]]

\* Entry::merge without the assignment self.kind = other.kind
Entry_merge_keepKind(self, other) ==
    IF self.name # other.name
    THEN [panic |-> TRUE, self |-> self]
    ELSE [panic |-> FALSE,
          self |-> [name |-> self.name,
                    kind |-> self.kind,
                    link |-> field_append(self.link, other.link).a,
                    description |->
                        field_append(self.description, other.description).a,
                    quote |-> field_append(self.quote, other.quote).a,
                    cc |-> self.cc \o other.cc]]

\* Entry::merge(self, other): whether assert_eq! failed, and self afterwards
Entry_merge(self, other) ==
    IF self.name # other.name
    THEN [panic |-> TRUE, self |-> self]
    ELSE [panic |-> FALSE,
          self |-> [name |-> self.name,
                    kind |-> other.kind,
                    link |-> field_append(self.link, other.link).a,
                    description |->
                        field_append(self.description, other.description).a,
                    quote |-> field_append(self.quote, other.quote).a,
                    cc |-> self.cc \o other.cc]]

\* split('\n') in place of lines(): the last empty piece is kept
RECURSIVE Lines_split(_)
Lines_split(s) ==
    IF \E i \in 1..Len(s) : s[i] = "\n"
    THEN LET i == CHOOSE k \in 1..Len(s) :
                      s[k] = "\n" /\ \A j \in 1..(k - 1) : s[j] # "\n"
         IN  <<SubSeq(s, 1, i - 1)>> \o Lines_split(SubSeq(s, i + 1, Len(s)))
    ELSE <<s>>

\* str::lines(): the pieces between line feeds, a last empty piece dropped
RECURSIVE Lines(_)
Lines(s) ==
    IF s = <<>> THEN <<>>
    ELSE IF \E i \in 1..Len(s) : s[i] = "\n"
    THEN LET i == CHOOSE k \in 1..Len(s) :
                      s[k] = "\n" /\ \A j \in 1..(k - 1) : s[j] # "\n"
         IN  <<SubSeq(s, 1, i - 1)>> \o Lines(SubSeq(s, i + 1, Len(s)))
    ELSE <<s>>

\* [String]::join(sep)
RECURSIVE Join(_, _)
Join(strs, sep) ==
    IF strs = <<>> THEN <<>>
    ELSE IF Len(strs) = 1 THEN strs[1]
    ELSE strs[1] \o sep \o Join(Tail(strs), sep)

\* the closure of Entry::render mapped over cc: format!("[@{}][{}]", person, person)
CcList(cc) == [i \in 1..Len(cc) |-> <<"[", "@">> \o cc[i] \o <<"]", "[">> \o cc[i] \o <<"]">>]

\* write!(file, ...) of the formatted text `chunk`. The sink decides: env.fails
\* holds the numbers of the write! calls that fail, and a failing call leaves
\* the first env.part bytes of its text, never all of it, in the file. A call
\* with nothing to write asks nothing of the sink and succeeds.
WriteFmt(f, chunk, env) ==
    IF chunk # <<>> /\ (Len(f.log) + 1) \in env.fails
    THEN [file |-> [data |-> f.data \o SubSeq(chunk, 1, Min(env.part, Len(chunk) - 1)),
                    log |-> Append(f.log, [chunk |-> chunk, ok |-> FALSE])],
          ok |-> FALSE]
    ELSE [file |-> [data |-> f.data \o chunk,
                    log |-> Append(f.log, [chunk |-> chunk, ok |-> TRUE])],
          ok |-> TRUE]

\* the loop of Entry::render over quote.lines()
RECURSIVE RenderQuote(_, _, _)
RenderQuote(lines, f, env) ==
    IF lines = <<>> THEN [file |-> f, ok |-> TRUE]
    ELSE LET w == WriteFmt(f, <<" ", ">", " ">> \o Head(lines) \o <<"\n">>, env)
         IN  IF ~w.ok THEN w ELSE RenderQuote(Tail(lines), w.file, env)

\* Entry::render(self, file): the file afterwards and Ok(()) or Err(IOErr)
Entry_render(self, f, env) ==
    LET w1 == WriteFmt(f, <<"-", " ">>, env)
        w2 == IF is_some(self.link)
              THEN WriteFmt(w1.file,
                            <<"[">> \o self.name \o <<"]", "(">> \o self.link[1] \o <<")">>,
                            env)
              ELSE WriteFmt(w1.file, self.name, env)
        w3 == IF is_some(self.description)
              THEN WriteFmt(w2.file, <<",", " ">> \o self.description[1] \o <<"\n">>, env)
              ELSE WriteFmt(w2.file, <<"\n">>, env)
        w4 == IF is_some(self.quote)
              THEN RenderQuote(Lines(self.quote[1]), w3.file, env)
              ELSE [file |-> w3.file, ok |-> TRUE]
        w5 == IF Len(self.cc) > 0
              THEN WriteFmt(w4.file, Join(CcList(self.cc), <<",", " ">>) \o <<"\n">>, env)
              ELSE [file |-> w4.file, ok |-> TRUE]
    IN  IF ~w1.ok THEN [file |-> w1.file, res |-> "IOErr"]
        ELSE IF ~w2.ok THEN [file |-> w2.file, res |-> "IOErr"]
        ELSE IF ~w3.ok THEN [file |-> w3.file, res |-> "IOErr"]
        ELSE IF ~w4.ok THEN [file |-> w4.file, res |-> "IOErr"]
        ELSE IF ~w5.ok THEN [file |-> w5.file, res |-> "IOErr"]
        ELSE [file |-> w5.file, res |-> "Ok"]

----------------------------------------------------------------------------
(* Weekly *)

\* Weekly::new
Weekly_new == [k \in {} |-> <<>>]

\* HashMap::insert
MapInsert(m, k, v) == [x \in DOMAIN m \cup {k} |-> IF x = k THEN v ELSE m[x]]

\* Weekly::parse without the lookup: the parsed entry replaces the stored one
Weekly_parse_overwrite(m, yaml) ==
    LET entry == Entry_parse(yaml)
    IN  IF is_some(entry)
        THEN [entries |-> MapInsert(m, entry[1].name, entry[1]), panic |-> FALSE]
        ELSE [entries |-> m, panic |-> FALSE]

\* Weekly::parse merging into whichever entry the map yields first
Weekly_parse_anyEntry(m, yaml) ==
    LET entry == Entry_parse(yaml)
    IN  IF is_some(entry)
        THEN LET e == entry[1]
             IN  IF DOMAIN m # {}
                 THEN LET k == CHOOSE x \in DOMAIN m : TRUE
                          r == Entry_merge(m[k], e)
                      IN  [entries |-> [m EXCEPT ![k] = r.self],
                           panic |-> r.panic]
                 ELSE [entries |-> MapInsert(m, e.name, e), panic |-> FALSE]
        ELSE [entries |-> m, panic |-> FALSE]

\* Weekly::parse(yaml): the map and the panic flag afterwards
Weekly_parse_result(m, yaml) ==
    LET entry == Entry_parse(yaml)
    IN  IF is_some(entry)
        THEN LET e == entry[1]
             IN  IF e.name \in DOMAIN m
                 THEN LET r == Entry_merge(m[e.name], e)
                      IN  [entries |-> [m EXCEPT ![e.name] = r.self],
                           panic |-> r.panic]
                 ELSE [entries |-> MapInsert(m, e.name, e), panic |-> FALSE]
        ELSE [entries |-> m, panic |-> FALSE]

\* A File nothing has been written to
EmptyFile == [data |-> <<>>, log |-> <<>>]

\* the loop of Weekly::render over self.entries.values(), which yields the
\* entries in the order `order` of their keys
RECURSIVE RenderValues(_, _, _, _, _)
RenderValues(m, order, f, env, seen) ==
    IF order = <<>> THEN [file |-> f, res |-> "Ok", visited |-> seen]
    ELSE LET r == Entry_render(m[Head(order)], f, env)
         IN  IF r.res # "Ok"
             THEN [file |-> r.file, res |-> r.res,
                   visited |-> Append(seen, Head(order))]
             ELSE RenderValues(m, Tail(order), r.file, env, Append(seen, Head(order)))

\* Weekly::render dropping each entry's result instead of try!-ing it
RECURSIVE RenderValues_ignore(_, _, _, _, _)
RenderValues_ignore(m, order, f, env, seen) ==
    IF order = <<>> THEN [file |-> f, res |-> "Ok", visited |-> seen]
    ELSE LET r == Entry_render(m[Head(order)], f, env)
         IN  RenderValues_ignore(m, Tail(order), r.file, env, Append(seen, Head(order)))

Weekly_render_ignore(m, order, f, env) == RenderValues_ignore(m, order, f, env, <<>>)

\* Weekly::render(self, file)
Weekly_render_result(m, order, f, env) == RenderValues(m, order, f, env, <<>>)

\* the orders HashMap::values() may yield the entries in
Orders(S) ==
    { o \in [1..Cardinality(S) -> S] : \A i, j \in 1..Cardinality(S) : o[i] = o[j] => i = j }

\* The call Weekly::parse(yaml) on the collection
Weekly_parse(yaml) ==
    /\ ~panicked
    /\ Len(hist) < MaxIngest
    /\ LET r == Weekly_parse_result(entries, yaml)
       IN  /\ entries' = r.entries
           /\ panicked' = r.panic
    /\ hist' = Append(hist, yaml)
    /\ UNCHANGED <<input, parsed, file, ret, visited>>

----------------------------------------------------------------------------
(* The fragments fed to Weekly::parse *)

Sx == <<"x">>

Sy == <<"y">>

\* (link, description, quote, cc) of a fragment
Bundle(l, d, q, c) == [link |-> l, description |-> d, quote |-> q, cc |-> c]

B0 == Bundle(BadValue, BadValue, BadValue, BadValue)

B1 == Bundle(YString(<<"l">>), YString(<<"a">>), BadValue,
             YArray(<<YString(<<"a">>), YString(<<"b">>)>>))

B2 == Bundle(BadValue, YString(<<"b">>), YString(<<"q", "\n">>),
             YArray(<<YString(<<"c">>)>>))

B3 == Bundle(YString(<<"m">>), YInteger(<<"7">>), YString(<<"r">>),
             YArray(<<YInteger(<<"7">>), YString(<<"a">>)>>))

Frag(n, t, b) == Loaded(<<Doc(n, t, b.link, b.description, b.quote, b.cc)>>)

Fragments ==
    \* name x, every bundle, type absent or valid
    { Frag(YString(Sx), t, b) :
        t \in {BadValue, YString(S_topic), YString(S_draft)},
        b \in {B0, B1, B2, B3} }
    \cup
    \* name y
    { Frag(YString(Sy), t, b) : t \in {BadValue, YString(S_topic)}, b \in {B0, B1} }
    \cup
    \* the empty name
    { Frag(YString(<<>>), BadValue, b) : b \in {B0, B1} }
    \cup
    \* a type that is no string; a second document
    { Frag(YString(Sx), YInteger(<<"5">>), B2),
      Loaded(<<Doc(YString(Sx), YNull, BadValue, YString(<<"a">>), BadValue, BadValue),
               Doc(YString(Sy), BadValue, BadValue, YString(<<"b">>), BadValue, BadValue)>>) }
    \cup
    \* fragments Entry::parse turns down
    { ScanError,
      Loaded(<<>>),
      Frag(BadValue, BadValue, B1),
      Frag(YNull, YString(S_topic), B2),
      Frag(YInteger(<<"5">>), BadValue, B1),
      Frag(YString(Sx), YString(S_foo), B1),
      Frag(YString(Sy), YString(S_foo), B2) }

Init ==
    /\ entries = Weekly_new
    /\ panicked = FALSE
    /\ hist = <<>>
    /\ input = ScanError
    /\ parsed = <<>>
    /\ file = EmptyFile
    /\ ret = "none"
    /\ visited = <<>>

Next == \E yaml \in Fragments : Weekly_parse(yaml)

Spec == Init /\ [][Next]_vars

----------------------------------------------------------------------------
(* Entry::parse on its own: one call on one fragment *)

ParseNames == {BadValue, YNull, YInteger(<<"5">>), YString(<<>>), YString(Sx)}

ParseTypes ==
    {BadValue, YNull, YInteger(<<"5">>), YArray(<<YString(S_topic)>>),
     YString(S_draft), YString(S_topic), YString(S_foo), YString(<<>>),
     YString(<<"T", "o", "p", "i", "c">>)}

ParseTexts == {BadValue, YInteger(<<"7">>), YString(<<"a">>)}

ParseCcs ==
    {BadValue, YNull, YString(<<"a">>),
     YArray(<<YString(<<"a">>), YString(<<"b">>)>>),
     YArray(<<YInteger(<<"7">>), YString(<<"a">>), YNull>>)}

ParseInputs ==
    { Loaded(<<Doc(n, t, l, d, q, c)>>) :
        n \in ParseNames, t \in ParseTypes, l \in {BadValue, YString(<<"l">>)},
        d \in ParseTexts, q \in {BadValue, YString(<<"q", "\n">>)}, c \in ParseCcs }
    \cup
    { ScanError,
      Loaded(<<>>),
      Loaded(<<Doc(YString(Sx), YString(S_topic), BadValue, BadValue, BadValue, BadValue),
               Doc(YString(Sy), YString(S_foo), BadValue, BadValue, BadValue, BadValue)>>),
      Loaded(<<Doc(YString(Sx), YString(S_foo), BadValue, BadValue, BadValue, BadValue),
               Doc(YString(Sy), YString(S_topic), BadValue, BadValue, BadValue, BadValue)>>) }

InitParse ==
    /\ input \in ParseInputs
    /\ parsed = <<>>
    /\ entries = Weekly_new
    /\ panicked = FALSE
    /\ hist = <<>>
    /\ file = EmptyFile
    /\ ret = "none"
    /\ visited = <<>>

\* the call Entry::parse(input)
CallEntryParse ==
    /\ parsed = <<>>
    /\ parsed' = <<Entry_parse(input)>>
    /\ UNCHANGED <<entries, panicked, hist, input, file, ret, visited>>

NextParse == CallEntryParse

ParseSpec == InitParse /\ [][NextParse]_vars

----------------------------------------------------------------------------
(* Weekly::render on a collection *)

\* Carriage returns are left out of the quotes: what lines() makes of them
\* differs between the toolchains this source builds with.
RECURSIVE StringsUpTo(_)
StringsUpTo(n) ==
    IF n = 0 THEN {<<>>}
    ELSE StringsUpTo(n - 1) \cup
         { Append(str, c) : str \in { t \in StringsUpTo(n - 1) : Len(t) = n - 1 },
                            c \in {"a", "\n"} }

RenderQuotes == {None} \cup { Some(q) : q \in StringsUpTo(MaxQuoteLen) }

Ent(n, k, l, d, q, c) ==
    [name |-> n, kind |-> k, link |-> l, description |-> d, quote |-> q, cc |-> c]

\* the entries named n that are rendered
RenderEntries(n) ==
    { Ent(n, "Draft", l, d, q, c) :
        l \in {None, Some(<<"l">>)},
        d \in {None, Some(<<>>), Some(<<"d">>)},
        q \in RenderQuotes,
        c \in {<<>>, <<<<"b">>>>, <<<<"b">>, <<"c">>>>} }

\* the entries of the render scenarios
ExampleX ==
    Ent(<<"X">>, "Draft",
        Some(<<"h", "t", "t", "p", ":", "/", "/", "a">>),
        Some(<<"d", "i", "d", " ", "s", "t", "u", "f", "f">>),
        Some(<<"l", "i", "n", "e", "1", "\n", "l", "i", "n", "e", "2">>),
        <<<<"b", "o", "b">>>>)

ExampleY == Ent(<<"Y">>, "Topic", None, None, None, <<>>)

Single(e) == MapInsert(Weekly_new, e.name, e)

RenderCollections ==
    { Weekly_new, Single(ExampleX), Single(ExampleY),
      MapInsert(Single(ExampleX), ExampleY.name, ExampleY),
      Single(Ent(<<>>, "Draft", None, None, None, <<>>)) }
    \cup { Single(e) : e \in RenderEntries(Sx) }
    \cup { MapInsert(Single(e), Sy, e2) :
             e \in { x \in RenderEntries(Sx) :
                       x.link = None /\ x.description # Some(<<>>) /\ Len(x.cc) <= 1 },
             e2 \in { Ent(Sy, "Topic", None, None, None, <<>>),
                      Ent(Sy, "Draft", Some(<<"m">>), None, Some(<<"a", "\n", "a">>),
                          <<<<"c">>>>) } }

InitRender ==
    /\ entries \in RenderCollections
    /\ panicked = FALSE
    /\ hist = <<>>
    /\ input = ScanError
    /\ parsed = <<>>
    /\ file = EmptyFile
    /\ ret = "none"
    /\ visited = <<>>

\* the call Weekly::render(file) with a fresh file
Weekly_render(order, env) ==
    /\ ~panicked
    /\ LET r == Weekly_render_result(entries, order, EmptyFile, env)
       IN  /\ file' = r.file
           /\ ret' = r.res
           /\ visited' = r.visited
    /\ UNCHANGED <<entries, panicked, hist, input, parsed>>

Envs == [fails : SUBSET (1..MaxAttempts), part : 0..MaxPartial]

NextRender ==
    \E order \in Orders(DOMAIN entries) : \E env \in Envs : Weekly_render(order, env)

RenderSpec == InitRender /\ [][NextRender]_vars

----------------------------------------------------------------------------
(* What the claims say of a fragment, read off the fragment itself *)

HasDoc(f) == ~f.err /\ f.docs # <<>>

\* the fragment has a string `name`
HasStringName(f) == HasDoc(f) /\ f.docs[1].name.tag = "String"

FragName(f) == f.docs[1].name.s

\* the fragment's `type` is a string other than "draft" and "topic"
UnknownType(f) ==
    /\ HasDoc(f)
    /\ f.docs[1].type.tag = "String"
    /\ f.docs[1].type.s \notin {S_draft, S_topic}

Rejected(f) == f.err \/ ~HasStringName(f) \/ UnknownType(f)

Accepted(f) == HasStringName(f) /\ ~UnknownType(f)

\* the kind an accepted fragment resolves to
FragKind(f) ==
    IF f.docs[1].type.tag = "String" /\ f.docs[1].type.s = S_topic
    THEN "Topic" ELSE "Draft"

\* the positions in hist of the accepted fragments named n
AcceptedAt(n) == { i \in 1..Len(hist) : Accepted(hist[i]) /\ FragName(hist[i]) = n }

AcceptedNames == { FragName(hist[i]) : i \in { j \in 1..Len(hist) : Accepted(hist[j]) } }

\* the string elements of the fragment's `cc`, in encounter order
RECURSIVE StringsOf(_)
StringsOf(nodes) ==
    IF nodes = <<>> THEN <<>>
    ELSE (IF Head(nodes).tag = "String" THEN <<Head(nodes).s>> ELSE <<>>)
         \o StringsOf(Tail(nodes))

FragCc(f) == IF f.docs[1].cc.tag = "Array" THEN StringsOf(f.docs[1].cc.a) ELSE <<>>

\* the concatenation, in ingest order, of field fld over the first k
\* fragments of hist that are accepted, named n and have fld as a string
RECURSIVE ConcatField(_, _, _)
ConcatField(n, fld, k) ==
    IF k = 0 THEN <<>>
    ELSE ConcatField(n, fld, k - 1) \o
         (IF k \in AcceptedAt(n) /\ hist[k].docs[1][fld].tag = "String"
          THEN hist[k].docs[1][fld].s ELSE <<>>)

FieldPresent(n, fld) ==
    \E i \in AcceptedAt(n) : hist[i].docs[1][fld].tag = "String"

RECURSIVE ConcatCc(_, _)
ConcatCc(n, k) ==
    IF k = 0 THEN <<>>
    ELSE ConcatCc(n, k - 1) \o (IF k \in AcceptedAt(n) THEN FragCc(hist[k]) ELSE <<>>)

Max(S) == CHOOSE x \in S : \A y \in S : y <= x

\* the step is a Weekly::parse call; Arg is its argument
IsIngest == hist' # hist

Arg == hist'[Len(hist')]

----------------------------------------------------------------------------
(* C1 *)

\* C1: Weekly::parse is insert-or-merge. A fragment that parses to an entry
\* named n, with n no key: one more entry, and the entry under n is the
\* parsed one. With n a key: as many entries as before, and the entry under
\* n is the stored one with the parsed one merged into it. So the keys are
\* exactly the names of the accepted fragments.
C1_InsertOrMerge ==
    /\ [](DOMAIN entries = AcceptedNames)
    /\ [][IsIngest /\ is_some(Entry_parse(Arg)) =>
            LET e == Entry_parse(Arg)[1]
                n == e.name
            IN  /\ n \notin DOMAIN entries =>
                      /\ Cardinality(DOMAIN entries') = Cardinality(DOMAIN entries) + 1
                      /\ entries'[n] = e
                /\ n \in DOMAIN entries =>
                      /\ Cardinality(DOMAIN entries') = Cardinality(DOMAIN entries)
                      /\ DOMAIN entries' = DOMAIN entries
                      /\ entries'[n] = Entry_merge(entries[n], e).self
          ]_vars

\* two names ingested, one of them twice
C1_Witness ==
    /\ Len(hist) = 3
    /\ \A i \in 1..3 : Accepted(hist[i])
    /\ Cardinality(DOMAIN entries) = 2
    /\ \E n \in DOMAIN entries : entries[n].cc = <<"a", "b", "c">>

----------------------------------------------------------------------------
(* C2 *)

\* C2: a rejected fragment is a no-op. Ingesting a fragment that fails to
\* decode, has no string name or has an unrecognized type string leaves the
\* collection as it was, also when its name is a key, and raises nothing.
C2_RejectedNoOp ==
    [][IsIngest /\ Rejected(Arg) => entries' = entries /\ ~panicked']_vars

\* a fragment with an unknown type was ingested under the name of an entry
C2_Witness ==
    /\ Len(hist) = 2
    /\ Accepted(hist[1])
    /\ UnknownType(hist[2])
    /\ HasStringName(hist[2])
    /\ FragName(hist[2]) = FragName(hist[1])
    /\ FragName(hist[2]) \in DOMAIN entries

----------------------------------------------------------------------------
(* C3 *)

\* C3: field-wise concatenation in ingest order. Each of link, description
\* and quote of a stored entry is the concatenation, in ingest order and
\* with nothing in between, of that field over the accepted fragments of
\* that name that have it, and is absent iff none has it.
C3_FieldConcat ==
    \A n \in DOMAIN entries :
        \A fld \in {"link", "description", "quote"} :
            entries[n][fld] =
                IF FieldPresent(n, fld)
                THEN Some(ConcatField(n, fld, Len(hist)))
                ELSE None

\* three fragments of one name, the description in the first and the last
C3_Witness ==
    /\ Len(hist) = 3
    /\ Cardinality(AcceptedAt(Sx)) = 3
    /\ hist[1].docs[1].description = YString(<<"b">>)
    /\ hist[2].docs[1].description.tag # "String"
    /\ hist[3].docs[1].description = YString(<<"a">>)
    /\ entries[Sx].description = Some(<<"b", "a">>)
    /\ hist[2].docs[1].quote.tag = "BadValue"
    /\ entries[Sx].quote = Some(<<"q", "\n">>)
    /\ entries[Sx].link = Some(<<"l">>)

----------------------------------------------------------------------------
(* C4 *)

\* C4: collaborator order preservation. The cc of a stored entry is the
\* concatenation, in ingest order, of the string elements of the cc of the
\* accepted fragments of that name, duplicates kept, elements that are no
\* strings left out.
C4_CcOrder ==
    \A n \in DOMAIN entries : entries[n].cc = ConcatCc(n, Len(hist))

\* cc [7,a], [7,a], [c] gives [a,a,c]: the order and the duplicate are kept,
\* the elements that are no strings are left out
C4_Witness ==
    /\ Len(hist) = 3
    /\ AcceptedAt(Sx) = {1, 2, 3}
    /\ Len(hist[1].docs[1].cc.a) = 2
    /\ FragCc(hist[1]) = <<"a">>
    /\ FragCc(hist[2]) = <<"a">>
    /\ FragCc(hist[3]) = <<"c">>
    /\ entries[Sx].cc = <<"a", "a", "c">>

----------------------------------------------------------------------------
(* C5 *)

\* C5: the kind is that of the last fragment. The kind of the entry under n
\* is the kind of the most recently ingested accepted fragment named n,
\* Draft for a fragment without a type.
C5_KindLastWins ==
    \A n \in DOMAIN entries :
        AcceptedAt(n) # {} /\ entries[n].kind = FragKind(hist[Max(AcceptedAt(n))])

\* a fragment without a type ingested for an entry that was Topic
C5_Witness ==
    /\ Len(hist) = 2
    /\ AcceptedAt(Sx) = {1, 2}
    /\ FragKind(hist[1]) = "Topic"
    /\ hist[2].docs[1].type.tag = "BadValue"
    /\ entries[Sx].kind = "Draft"

----------------------------------------------------------------------------
(* C9 *)

\* C9, as stated: every stored entry has a non-empty name.
C9_NameNonEmpty == \A n \in DOMAIN entries : entries[n].name # <<>>

\* C9, amended: the name of a stored entry is the string `name` of the
\* accepted fragments it was made of, empty when theirs is: an accepted
\* fragment whose name is the empty string is stored, under the empty name.
C9_NameIsFragmentName ==
    /\ \A n \in DOMAIN entries : AcceptedAt(entries[n].name) # {}
    /\ \A i \in 1..Len(hist) :
          Accepted(hist[i]) =>
              /\ FragName(hist[i]) \in DOMAIN entries
              /\ entries[FragName(hist[i])].name = FragName(hist[i])

\* an entry with the empty name is stored
C9_Witness ==
    /\ <<>> \in DOMAIN entries
    /\ entries[<<>>].name = <<>>
    /\ Sx \in DOMAIN entries

----------------------------------------------------------------------------
(* C10 *)

\* C10: the merge precondition holds. Every entry is stored under its own
\* name, no ingest changes the name of a stored entry or removes it, and
\* the assert_eq! of Entry::merge never fails.
C10_MergePrecondition ==
    /\ [](~panicked /\ \A n \in DOMAIN entries : entries[n].name = n)
    /\ [][\A n \in DOMAIN entries :
              n \in DOMAIN entries' /\ entries'[n].name = entries[n].name]_vars

\* a merge took place, with another entry in the collection
C10_Witness ==
    /\ Len(hist) = 3
    /\ Cardinality(AcceptedAt(Sx)) = 2
    /\ Cardinality(AcceptedAt(Sy)) = 1
    /\ ~panicked

----------------------------------------------------------------------------
(* C6 *)

ParseDone == parsed # <<>>

TypeNode == input.docs[1].type

\* C6, as stated: a decodable fragment yields an entry iff its name is a
\* string and its type is absent, null, "draft" or "topic"; the kind is Topic
\* iff the type is "topic" and Draft otherwise; any other string as type
\* rejects the fragment.
C6_ParseIff ==
    ParseDone /\ ~input.err =>
        /\ is_some(parsed[1]) <=>
              /\ HasStringName(input)
              /\ \/ TypeNode.tag \in {"BadValue", "Null"}
                 \/ TypeNode.tag = "String" /\ TypeNode.s \in {S_draft, S_topic}
        /\ is_some(parsed[1]) =>
              (parsed[1][1].kind = "Topic" <=>
                  TypeNode.tag = "String" /\ TypeNode.s = S_topic)
        /\ UnknownType(input) => parsed[1] = None

\* C6, amended: a decodable fragment yields an entry iff its name is a string
\* and its type is not a string other than "draft" and "topic": a type that
\* is absent, null or any value that is no string (a number, a list) is
\* accepted and resolves to Draft. The kind is Topic iff the type is "topic"
\* and Draft otherwise; any other string as type rejects the fragment.
C6_ParseIffNonString ==
    ParseDone /\ ~input.err =>
        /\ is_some(parsed[1]) <=>
              /\ HasStringName(input)
              /\ \/ TypeNode.tag # "String"
                 \/ TypeNode.s \in {S_draft, S_topic}
        /\ is_some(parsed[1]) =>
              /\ parsed[1][1].kind \in {"Draft", "Topic"}
              /\ parsed[1][1].kind = "Topic" <=>
                    TypeNode.tag = "String" /\ TypeNode.s = S_topic
        /\ UnknownType(input) => parsed[1] = None

\* a fragment with a valid name and the type "foo" was parsed, to no entry
C6_Witness ==
    /\ ParseDone
    /\ HasStringName(input)
    /\ FragName(input) = Sx
    /\ TypeNode = YString(S_foo)
    /\ parsed[1] = None

----------------------------------------------------------------------------
(* What the claims say an entry renders to *)

RECURSIVE Flatten(_)
Flatten(strs) == IF strs = <<>> THEN <<>> ELSE Head(strs) \o Flatten(Tail(strs))

\* the positions of the line feeds of q, and the number of its lines: one per
\* line feed, and one more for text after the last line feed
Feeds(q) == { i \in 1..Len(q) : q[i] = "\n" }

NumLines(q) ==
    Cardinality(Feeds(q)) + (IF q # <<>> /\ q[Len(q)] # "\n" THEN 1 ELSE 0)

\* the position of the k-th line feed of q: 0 for k = 0, past the end when
\* q has fewer
FeedAt(q, k) ==
    IF k = 0 THEN 0
    ELSE IF k > Cardinality(Feeds(q)) THEN Len(q) + 1
    ELSE CHOOSE i \in Feeds(q) : Cardinality({ j \in Feeds(q) : j <= i }) = k

LineOf(q, k) == SubSeq(q, FeedAt(q, k - 1) + 1, FeedAt(q, k) - 1)

ExpectedRender(e) ==
    <<"-", " ">>
    \o (IF e.link # None
        THEN <<"[">> \o e.name \o <<"]", "(">> \o e.link[1] \o <<")">>
        ELSE e.name)
    \o (IF e.description # None
        THEN <<",", " ">> \o e.description[1] \o <<"\n">>
        ELSE <<"\n">>)
    \o (IF e.quote # None
        THEN Flatten([k \in 1..NumLines(e.quote[1]) |->
                        <<" ", ">", " ">> \o LineOf(e.quote[1], k) \o <<"\n">>])
        ELSE <<>>)
    \o (IF e.cc # <<>>
        THEN Flatten([i \in 1..Len(e.cc) |->
                        (IF i > 1 THEN <<",", " ">> ELSE <<>>)
                        \o <<"[", "@">> \o e.cc[i] \o <<"]", "[">> \o e.cc[i] \o <<"]">>])
             \o <<"\n">>
        ELSE <<>>)

\* "- [X](http://a), did stuff\n > line1\n > line2\n[@bob][bob]\n"
ExpectedX ==
    <<"-", " ", "[", "X", "]", "(", "h", "t", "t", "p", ":", "/", "/", "a",
      ")", ",", " ", "d", "i", "d", " ", "s", "t", "u", "f", "f", "\n",
      " ", ">", " ", "l", "i", "n", "e", "1", "\n", " ", ">", " ", "l",
      "i", "n", "e", "2", "\n", "[", "@", "b", "o", "b", "]", "[", "b",
      "o", "b", "]", "\n">>

\* "- Y\n"
ExpectedY ==
    <<"-", " ", "Y", "\n">>

RenderDone == ret # "none"

NoWriteFailed == \A i \in 1..Len(file.log) : file.log[i].ok

\* what the entries visited so far render to, in the order of the visits
ExpectedOf(names) == Flatten([i \in 1..Len(names) |-> ExpectedRender(entries[names[i]])])

----------------------------------------------------------------------------
(* C7 *)

\* C7: when no write fails, an entry is rendered as "- ", then [name](link)
\* or name, then ", description" and a line feed or a line feed alone, then
\* a line " > line" per line of the quote (none for an absent or empty
\* quote), then, iff there are collaborators, one line of [@c][c] joined by
\* ", ". The two render scenarios give the texts stated.
C7_RenderFormat ==
    RenderDone /\ NoWriteFailed =>
        /\ ret = "Ok"
        /\ file.data = ExpectedOf(visited)
        /\ entries = Single(ExampleX) => file.data = ExpectedX
        /\ entries = Single(ExampleY) => file.data = ExpectedY

\* the first render scenario was rendered
C7_Witness ==
    /\ entries = Single(ExampleX)
    /\ ret = "Ok"
    /\ visited = <<ExampleX.name>>
    /\ file.data = ExpectedX

----------------------------------------------------------------------------
(* C8 *)

Failed == { i \in 1..Len(file.log) : ~file.log[i].ok }

\* the text of the write! calls that succeeded, and of all that were made
WrittenOk ==
    Flatten([i \in 1..Len(file.log) |->
               IF file.log[i].ok THEN file.log[i].chunk ELSE <<>>])

Attempted == Flatten([i \in 1..Len(file.log) |-> file.log[i].chunk])

IsPrefix(a, b) == Len(a) <= Len(b) /\ SubSeq(b, 1, Len(a)) = a

\* C8: Weekly::render stops at the first failure. The entries are rendered
\* one after another, each at most once. The first write that fails is the
\* last write made and the call returns IOErr: the rest of that entry and
\* the later entries are not rendered, and what was written stays in the
\* file. When no write fails the call returns Ok with every entry rendered
\* once.
C8_StopAtFirstFailure ==
    RenderDone =>
        /\ \A i, j \in 1..Len(visited) : visited[i] = visited[j] => i = j
        /\ \A i \in 1..Len(visited) : visited[i] \in DOMAIN entries
        /\ Failed \subseteq {Len(file.log)}
        /\ ret = "IOErr" <=> Failed # {}
        /\ ret = "Ok" <=> Failed = {}
        /\ ret = "Ok" =>
              /\ { visited[i] : i \in 1..Len(visited) } = DOMAIN entries
              /\ file.data = ExpectedOf(visited)
        /\ ret = "IOErr" =>
              /\ visited # <<>>
              /\ IsPrefix(Attempted, ExpectedOf(visited))
              /\ Len(Attempted) > Len(ExpectedOf(SubSeq(visited, 1, Len(visited) - 1)))
              /\ IsPrefix(WrittenOk, file.data)
              /\ IsPrefix(file.data, Attempted)
              /\ Len(file.data) < Len(Attempted)

\* a write of the first of two entries failed after another had succeeded:
\* the second entry was not rendered and the text written is in the file
C8_Witness ==
    /\ ret = "IOErr"
    /\ Cardinality(DOMAIN entries) = 2
    /\ Len(visited) = 1
    /\ Len(file.log) >= 2
    /\ Len(file.data) > Len(WrittenOk)
    /\ WrittenOk # <<>>

=============================================================================
